---- MODULE Spec2Model ----
(***************************************************************************)
(* R-GCN embedding service: graph ingestion (neo4j_connector.py), model    *)
(* construction and forward pass (rgcn_model.py), the embedding and        *)
(* similarity service (embedding_service.py) and the FastAPI handlers      *)
(* with their process-wide state (app.py).                                 *)
(*                                                                         *)
(* Conventions.  Python's Optional[X] is a sequence of length 0 (None) or  *)
(* 1.  Python lists are sequences; a 0-based Python index i is stored as   *)
(* the integer i and addresses position i + 1 of the sequence.  Floats are *)
(* integers: parameter values are small integers, and a cosine score is    *)
(* kept as the exact fraction sgn(a.b) * (a.b)^2 / (|a|^2 |b|^2), which    *)
(* orders pairs of vectors exactly as the cosine does.                     *)
(***************************************************************************)
EXTENDS Integers, Sequences, FiniteSets, TLC

VARIABLES
    pc,               \* "boot" before the startup event has run, "serving" after
    file,             \* the persisted snapshot at RGCN_MODEL_PATH
    neo4j_connector,  \* Optional: <<[up |-> BOOLEAN]>> once constructed
    graph_data_cache, \* Optional: the dictionary returned by get_graph_data
    node_to_entity,   \* dict: node index -> entity id
    entity_to_node,   \* dict: entity id -> node index
    model,            \* Optional[RGCNModel]
    trainer,          \* Optional[RGCNTrainer]
    stats,            \* usage counters
    training,         \* the train_model coroutines that have started and not returned
    response,         \* what the last handler returned to its caller
    request,          \* the request the last handler was called with
    log,              \* the startup lines printed so far
    epochs_run,       \* ghost: epochs run since startup
    fresh             \* ghost: the parameters as RGCNModel.__init__ left them

vars == <<pc, file, neo4j_connector, graph_data_cache, node_to_entity,
          entity_to_node, model, trainer, stats, training, request, response, log,
          epochs_run, fresh>>

(***************************************************************************)
(* Bounds of the model.                                                    *)
(***************************************************************************)
MaxQueries == 1   \* queries counted in stats before the model stops issuing them
MaxEpochs == 2    \* epochs run by the train requests of one run of the process
SimNodes == 4     \* graph nodes in the similarity-service model
MaxLayers == 3    \* largest RGCN_NUM_LAYERS in the construction model
MaxDim == 2       \* largest embedding_dim and hidden_dim in the construction model
MaxIngestEdges == 3   \* longest edge enumeration in the ingestion model

None == <<>>
Some(x) == <<x>>
IsNone(o) == o = <<>>
Val(o) == o[1]

EmptyDict == [k \in {} |-> 0]
DictSet(d, k, v) == [x \in (DOMAIN d) \cup {k} |-> IF x = k THEN v ELSE d[x]]

Range(s) == {s[i] : i \in DOMAIN s}

RECURSIVE SumSeq(_)
SumSeq(s) == IF s = <<>> THEN 0 ELSE Head(s) + SumSeq(Tail(s))

(***************************************************************************)
(* The database.  A node record carries the value of n.id ("" stands for a *)
(* missing or empty property, both falsy in Python); nodes come ordered by *)
(* neo4j_id.  A relationship record carries the neo4j ids of its endpoints *)
(* and its type.                                                           *)
(***************************************************************************)
NodeProps == {"A", ""}
Neo4jId(pos) == 10 + pos

NodeRecords(n) == [1..n -> NodeProps]
Rel(s, t, type) == [source |-> Neo4jId(s), target |-> Neo4jId(t), rel_type |-> type]

RECURSIVE SeqsUpTo(_, _)
SeqsUpTo(S, k) ==
    IF k = 0 THEN {<<>>}
    ELSE LET shorter == SeqsUpTo(S, k - 1)
         IN  shorter \cup {Append(s, x) : s \in {t \in shorter : Len(t) = k - 1}, x \in S}

(***************************************************************************)
(* Neo4jConnector.get_graph_data                                           *)
(***************************************************************************)
\* entity_ids.append(record["entity_id"] or f"node_{idx}")
EntityIdOf(prop, idx) == IF prop # "" THEN prop ELSE "node_" \o ToString(idx)

EntityIds(nodes) == [p \in 1..Len(nodes) |-> EntityIdOf(nodes[p], p - 1)]

\* node_map[neo4j_id] = idx
NodeMap(nodes) == [id \in {Neo4jId(p) : p \in 1..Len(nodes)} |-> id - Neo4jId(1)]

\* rel_type = record["rel_type"] or "RELATED_TO"
RelTypeOf(t) == IF t # "" THEN t ELSE "RELATED_TO"

\* an assignment that forgets the membership test
AssignRelIndexAlways(rel_type_map, rel_type) ==
    DictSet(rel_type_map, rel_type, Cardinality(DOMAIN rel_type_map))

\* if rel_type not in rel_type_map: rel_type_map[rel_type] = len(rel_type_map)
AssignRelIndex(rel_type_map, rel_type) ==
    IF rel_type \in DOMAIN rel_type_map
    THEN rel_type_map
    ELSE DictSet(rel_type_map, rel_type, Cardinality(DOMAIN rel_type_map))

\* The loop over edges_result: the state is (edges, rel_types, rel_type_map).
RECURSIVE IngestEdges(_, _, _)
IngestEdges(recs, node_map, acc) ==
    IF recs = <<>> THEN acc
    ELSE LET r == [Head(recs) EXCEPT !.rel_type = RelTypeOf(@)]
             known == r.source \in DOMAIN node_map /\ r.target \in DOMAIN node_map
             rmap == AssignRelIndex(acc.rel_type_map, r.rel_type)
         IN  IF ~known
             THEN IngestEdges(Tail(recs), node_map, acc)
             ELSE IngestEdges(Tail(recs), node_map,
                      [edges |-> Append(acc.edges,
                                        <<node_map[r.source], node_map[r.target]>>),
                       edge_types |-> Append(acc.edge_types, rmap[r.rel_type]),
                       rel_type_map |-> rmap])

get_graph_data(nodes, rels) ==
    IF Len(nodes) = 0
    THEN [node_map |-> EmptyDict, entity_ids |-> <<>>, edges |-> <<>>,
          edge_types |-> <<>>, rel_type_map |-> EmptyDict]
    ELSE LET got == IngestEdges(rels, NodeMap(nodes),
                        [edges |-> <<>>, edge_types |-> <<>>, rel_type_map |-> EmptyDict])
         IN  [node_map |-> NodeMap(nodes), entity_ids |-> EntityIds(nodes),
              edges |-> got.edges, edge_types |-> got.edge_types,
              rel_type_map |-> got.rel_type_map]

(***************************************************************************)
(* startup, lines 90-93: the two dictionaries built by one enumeration.    *)
(***************************************************************************)
RECURSIVE BuildMappings(_, _, _)
BuildMappings(entity_ids, idx, acc) ==
    IF idx >= Len(entity_ids) THEN acc
    ELSE BuildMappings(entity_ids, idx + 1,
             [n2e |-> DictSet(acc.n2e, idx, entity_ids[idx + 1]),
              e2n |-> DictSet(acc.e2n, entity_ids[idx + 1], idx)])

Mappings(entity_ids) == BuildMappings(entity_ids, 0, [n2e |-> EmptyDict, e2n |-> EmptyDict])
(***************************************************************************)
(* Tensors: a shape and nested sequences of numbers.                       *)
(***************************************************************************)
Vec(n, v) == [j \in 1..n |-> v]
Mat(r, c, v) == [i \in 1..r |-> Vec(c, v)]
Tensor(shape, data) == [shape |-> shape, data |-> data]

\* x @ M for a row vector x of length Len(M) and a matrix M with `cols` columns
VecMat(x, M, cols) ==
    [j \in 1..cols |-> SumSeq([i \in 1..Len(M) |-> x[i] * M[i][j]])]
VecAdd(a, b) == [j \in 1..Len(a) |-> a[j] + b[j]]
VecScale(k, a) == [j \in 1..Len(a) |-> k * a[j]]
Dot(a, b) == SumSeq([j \in 1..Len(a) |-> a[j] * b[j]])

RECURSIVE VecSum(_, _)
VecSum(vs, n) == IF vs = <<>> THEN Vec(n, 0) ELSE VecAdd(Head(vs), VecSum(Tail(vs), n))

(***************************************************************************)
(* RGCNModel.__init__.  Random initialisation is drawn from a seed: the    *)
(* embedding rows and the glorot-initialised transforms take small values  *)
(* that depend on it, the biases start at zero (RGCNConv.reset_parameters).*)
(***************************************************************************)
Seeds == {0, 1}
InitVal(seed, i) == 1 + ((seed + i) % 2)

EmbeddingKey == "node_embedding.weight"
ConvKey(l, name) == "convs." \o ToString(l) \o "." \o name

\* a schedule whose hidden-layer loop runs once too often
LayerDimsExtraHidden(embedding_dim, hidden_dim, num_layers) ==
    IF num_layers = 1
    THEN << <<embedding_dim, embedding_dim>> >>
    ELSE << <<embedding_dim, hidden_dim>> >>
         \o [k \in 1..(num_layers - 1) |-> <<hidden_dim, hidden_dim>>]
         \o << <<hidden_dim, embedding_dim>> >>

\* the (in_channels, out_channels) of the layers appended at lines 41-51
LayerDims(embedding_dim, hidden_dim, num_layers) ==
    IF num_layers = 1
    THEN << <<embedding_dim, embedding_dim>> >>
    ELSE << <<embedding_dim, hidden_dim>> >>
         \o [k \in 1..(num_layers - 2) |-> <<hidden_dim, hidden_dim>>]
         \o << <<hidden_dim, embedding_dim>> >>

\* RGCNConv(in_channels, out_channels, num_relations): its three parameters
ConvParams(l, dims, num_relations, seed) ==
    LET w == InitVal(seed, l)
    IN  (ConvKey(l, "weight") :>
             Tensor(<<num_relations, dims[1], dims[2]>>,
                    [r \in 1..num_relations |-> Mat(dims[1], dims[2], w)]))
        @@ (ConvKey(l, "root") :> Tensor(<<dims[1], dims[2]>>, Mat(dims[1], dims[2], w)))
        @@ (ConvKey(l, "bias") :> Tensor(<<dims[2]>>, Vec(dims[2], 0)))

RECURSIVE AllConvParams(_, _, _, _)
AllConvParams(l, convs, num_relations, seed) ==
    IF l >= Len(convs) THEN EmptyDict
    ELSE ConvParams(l, convs[l + 1], num_relations, seed)
         @@ AllConvParams(l + 1, convs, num_relations, seed)

EmbeddingTable(num_nodes, embedding_dim, seed) ==
    [i \in 1..num_nodes |-> Vec(embedding_dim, InitVal(seed, i))]

RGCNModel(num_nodes, num_relations, embedding_dim, hidden_dim, num_layers, seed) ==
    LET convs == LayerDims(embedding_dim, hidden_dim, num_layers)
    IN  [num_nodes |-> num_nodes, num_relations |-> num_relations,
         embedding_dim |-> embedding_dim, hidden_dim |-> hidden_dim,
         num_layers |-> num_layers,
         convs |-> convs,
         training |-> TRUE,
         params |-> (EmbeddingKey :>
                        Tensor(<<num_nodes, embedding_dim>>,
                               EmbeddingTable(num_nodes, embedding_dim, seed)))
                    @@ AllConvParams(0, convs, num_relations, seed)]

\* model.state_dict()
state_dict(m) == m.params

(***************************************************************************)
(* RGCNModel.forward.  One RGCNConv layer adds, for every relation, the    *)
(* mean of the sources' rows over the incoming edges of that relation,     *)
(* transformed by the relation's weight, to x @ root + bias.  To stay in   *)
(* the integers the result is carried multiplied by a scale: a layer takes *)
(* rows scaled by S to rows scaled by S * DegScale(E), where DegScale(E)   *)
(* is a multiple of every possible in-degree of a graph with E edges.      *)
(***************************************************************************)
RECURSIVE Factorial(_)
Factorial(n) == IF n <= 1 THEN 1 ELSE n * Factorial(n - 1)

DegScale(num_edges) == Factorial(num_edges)

\* positions of the edges of relation r that point at node v
Incoming(v, r, edges, edge_types) ==
    {e \in 1..Len(edges) : edges[e][2] = v /\ edge_types[e] = r}

RECURSIVE SumRows(_, _, _, _)
SumRows(es, edges, x, n) ==
    IF es = {} THEN Vec(n, 0)
    ELSE LET e == CHOOSE e \in es : TRUE
         IN  VecAdd(x[edges[e][1] + 1], SumRows(es \ {e}, edges, x, n))

Relu(a) == [j \in 1..Len(a) |-> IF a[j] > 0 THEN a[j] ELSE 0]

ConvForward(m, l, x, scale, edges, edge_types) ==
    LET dims == m.convs[l + 1]
        D == DegScale(Len(edges))
        weight == m.params[ConvKey(l, "weight")].data
        root == m.params[ConvKey(l, "root")].data
        bias == m.params[ConvKey(l, "bias")].data
        Msg(v, r) ==
            LET inc == Incoming(v, r, edges, edge_types)
            IN  IF inc = {} THEN Vec(dims[2], 0)
                ELSE VecScale(D \div Cardinality(inc),
                              VecMat(SumRows(inc, edges, x, dims[1]), weight[r + 1], dims[2]))
        Out(v) ==
            VecAdd(VecAdd(VecScale(D, VecMat(x[v + 1], root, dims[2])),
                          VecScale(scale * D, bias)),
                   VecSum([r \in 1..m.num_relations |-> Msg(v, r - 1)], dims[2]))
    IN  [p \in 1..Len(x) |-> Out(p - 1)]

RECURSIVE ForwardFrom(_, _, _, _, _, _)
ForwardFrom(m, l, x, scale, edges, edge_types) ==
    IF l >= Len(m.convs) THEN [x |-> x, scale |-> scale]
    ELSE LET y == ConvForward(m, l, x, scale, edges, edge_types)
             z == IF l < Len(m.convs) - 1 THEN [p \in 1..Len(y) |-> Relu(y[p])] ELSE y
         IN  ForwardFrom(m, l + 1, z, scale * DegScale(Len(edges)), edges, edge_types)

\* the rows of the final layer's output, each multiplied by .scale
forward(m, edges, edge_types) ==
    ForwardFrom(m, 0, m.params[EmbeddingKey].data, 1, edges, edge_types)
(***************************************************************************)
(* torch: load, load_state_dict, optimizer.step                            *)
(***************************************************************************)
\* Module.load_state_dict(sd), strict: every parameter whose key is in sd with
\* the same shape is copied in place; a size mismatch, a missing key or an
\* unexpected key is collected, and the RuntimeError is raised after the copies.
load_state_dict(m, sd) ==
    LET Copied(k) == k \in DOMAIN sd /\ sd[k].shape = m.params[k].shape
    IN  [model |-> [m EXCEPT !.params =
                       [k \in DOMAIN m.params |-> IF Copied(k) THEN sd[k] ELSE m.params[k]]],
         raised |-> \/ \E k \in DOMAIN m.params : ~Copied(k)
                    \/ \E k \in DOMAIN sd : k \notin DOMAIN m.params]

RECURSIVE Shift(_, _, _)
Shift(data, depth, d) ==
    IF depth = 0 THEN data + d
    ELSE [i \in 1..Len(data) |-> Shift(data[i], depth - 1, d)]

\* One optimizer step: every learnable parameter is updated in place.  The
\* update (Adam on the link-prediction loss over randomly sampled negative
\* edges) is a shift of every entry by a sampled amount.
Noise == {-1, 1}
OptimizerStep(params, d) ==
    [k \in DOMAIN params |->
        Tensor(params[k].shape, Shift(params[k].data, Len(params[k].shape), d))]

(***************************************************************************)
(* EmbeddingService.  A Python dict is kept in insertion order as a        *)
(* sequence of <<key, value>> pairs.                                       *)
(***************************************************************************)
Keys(od) == [i \in 1..Len(od) |-> od[i][1]]
HasKey(od, k) == \E i \in 1..Len(od) : od[i][1] = k
Get(od, k) == od[CHOOSE i \in 1..Len(od) : od[i][1] = k][2]
\* d[k] = v: a new key is appended, an old key keeps its place
Put(od, k, v) ==
    IF HasKey(od, k) THEN [i \in 1..Len(od) |-> IF od[i][1] = k THEN <<k, v>> ELSE od[i]]
    ELSE Append(od, <<k, v>>)
AsFunction(od) == [k \in Range(Keys(od)) |-> Get(od, k)]

\* a lookup that ignores the index and reads the first row
EmbeddingRowFirst(m, node_idx) == m.params[EmbeddingKey].data[1]

\* self.model.node_embedding(node_tensor)[i], self.model.node_embedding.weight[i]
EmbeddingRow(m, node_idx) == m.params[EmbeddingKey].data[node_idx + 1]

\* lines 37-45: entity_ids is None
RECURSIVE AllEmbeddingsFrom(_, _, _, _)
AllEmbeddingsFrom(m, n2e, node_idx, result) ==
    IF node_idx \notin DOMAIN n2e THEN result
    ELSE AllEmbeddingsFrom(m, n2e, node_idx + 1,
                           Put(result, n2e[node_idx], EmbeddingRow(m, node_idx)))

get_all_embeddings(m, n2e) == AllEmbeddingsFrom(m, n2e, 0, <<>>)

\* line 52: if entity_id in self.entity_to_node
IsMapped(e2n, entity_id) == entity_id \in DOMAIN e2n

\* lines 46-63: the loop, then dict(zip(valid_entity_ids, embeddings))
RECURSIVE EmbeddingsOf(_, _, _, _)
EmbeddingsOf(m, e2n, entity_ids, result) ==
    IF entity_ids = <<>> THEN result
    ELSE LET entity_id == Head(entity_ids)
         IN  EmbeddingsOf(m, e2n, Tail(entity_ids),
                 IF IsMapped(e2n, entity_id)
                 THEN Put(result, entity_id, EmbeddingRow(m, e2n[entity_id]))
                 ELSE result)

get_embeddings(m, e2n, entity_ids) == EmbeddingsOf(m, e2n, entity_ids, <<>>)

\* sklearn cosine_similarity: rows are normalised (a zero row stays zero),
\* then multiplied.  The score is kept as sgn(a.b) (a.b)^2 / (|a|^2 |b|^2).
Sign(x) == IF x > 0 THEN 1 ELSE IF x < 0 THEN -1 ELSE 0
cosine_similarity(a, b) ==
    IF Dot(a, a) = 0 \/ Dot(b, b) = 0 THEN [num |-> 0, den |-> 1]
    ELSE [num |-> Sign(Dot(a, b)) * Dot(a, b) * Dot(a, b), den |-> Dot(a, a) * Dot(b, b)]

ScoreLess(s, t) == s.num * t.den < t.num * s.den
ScoreEq(s, t) == s.num * t.den = t.num * s.den

\* a comparison that never recognises the query entity
IsSelfNever(other_entity_id, entity_id) == FALSE

\* line 92: if other_entity_id == entity_id: continue
IsSelf(other_entity_id, entity_id) == other_entity_id = entity_id

\* lines 90-100
RECURSIVE Similarities(_, _, _, _)
Similarities(all_embeddings, entity_id, query_emb, acc) ==
    IF all_embeddings = <<>> THEN acc
    ELSE LET other == Head(all_embeddings)
         IN  Similarities(Tail(all_embeddings), entity_id, query_emb,
                 IF IsSelf(other[1], entity_id) THEN acc
                 ELSE Append(acc, [entity_id |-> other[1],
                                   score |-> cosine_similarity(query_emb, other[2]),
                                   label |-> "Entity"]))

\* list.sort(key=score, reverse=True): stable, equal scores keep their order
RECURSIVE InsertDesc(_, _)
InsertDesc(sorted, x) ==
    IF sorted = <<>> THEN <<x>>
    ELSE IF ScoreLess(Head(sorted).score, x.score) THEN <<x>> \o sorted
    ELSE <<Head(sorted)>> \o InsertDesc(Tail(sorted), x)

RECURSIVE SortDesc(_, _)
SortDesc(todo, sorted) ==
    IF todo = <<>> THEN sorted ELSE SortDesc(Tail(todo), InsertDesc(sorted, Head(todo)))

\* similarities[:top_k]
SliceTo(s, k) ==
    LET stop == IF k >= 0 THEN (IF k < Len(s) THEN k ELSE Len(s))
                ELSE (IF Len(s) + k > 0 THEN Len(s) + k ELSE 0)
    IN  SubSeq(s, 1, stop)

find_similar_entities(m, e2n, n2e, entity_id, top_k) ==
    IF entity_id \notin DOMAIN e2n THEN <<>>
    ELSE LET query_embedding == get_embeddings(m, e2n, <<entity_id>>)
         IN  IF query_embedding = <<>> THEN <<>>
             ELSE SliceTo(SortDesc(Similarities(get_all_embeddings(m, n2e), entity_id,
                                                Get(query_embedding, entity_id), <<>>),
                                   <<>>),
                          top_k)
(***************************************************************************)
(* The process.  Environment: the database, the configuration read from    *)
(* os.getenv, and the snapshot file a previous run may have left.          *)
(***************************************************************************)
\* no entities; the three entities of a small graph; a graph in which two
\* nodes carry the identifier "A" and two carry none
Databases ==
    {[nodes |-> <<>>, rels |-> <<>>],
     [nodes |-> <<"A", "B", "C">>,
      rels |-> <<Rel(1, 2, "LIKES"), Rel(2, 3, "LIKES")>>],
     [nodes |-> <<"A", "", "A", "">>,
      rels |-> <<Rel(1, 2, "KNOWS"), Rel(3, 2, "KNOWS"), Rel(5, 1, "LIKES")>>]}

Configs == {[embedding_dim |-> 2, hidden_dim |-> 3, num_layers |-> 2],
            [embedding_dim |-> 2, hidden_dim |-> 2, num_layers |-> 1]}

Absent == [kind |-> "absent"]
Corrupt == [kind |-> "corrupt"]
Saved(sd) == [kind |-> "saved", state |-> sd]

\* what train_model saved in an earlier run: the parameters of a model of a
\* three-node, one-relation graph under some configuration, after training
SavedByEarlierRun ==
    {Saved(OptimizerStep(
         state_dict(RGCNModel(3, 1, c.embedding_dim, c.hidden_dim, c.num_layers, 0)), 2))
       : c \in Configs}

Files == {Absent, Corrupt} \cup SavedByEarlierRun

InitialStats == [total_queries |-> 0, avg_similarity_updates |-> 0, embeddings_count |-> 0]

Init ==
    /\ pc = "boot"
    /\ file \in Files
    /\ neo4j_connector = None
    /\ graph_data_cache = None
    /\ node_to_entity = EmptyDict
    /\ entity_to_node = EmptyDict
    /\ model = None
    /\ trainer = None
    /\ stats = InitialStats
    /\ training = <<>>
    /\ request = [op |-> "none"]
    /\ response = [status |-> 0]
    /\ log = <<>>
    /\ epochs_run = 0
    /\ fresh = None

\* a startup without the empty-graph return
NoNodesNever(num_nodes) == FALSE

\* line 84: if num_nodes == 0
NoNodes(num_nodes) == num_nodes = 0

\* lines 109-118: the outcome of the attempt to load the snapshot
LoadSnapshot(m, f, force_retrain) ==
    IF f.kind = "absent" \/ force_retrain
    THEN [model |-> m, line |-> "No pre-trained model found"]
    ELSE IF f.kind = "corrupt"
    THEN [model |-> m, line |-> "Could not load model"]
    ELSE LET got == load_state_dict(m, f.state)
         IN  [model |-> got.model,
              line |-> IF got.raised THEN "Could not load model"
                       ELSE "Loaded pre-trained model"]

\* startup(), lines 59-121
Startup ==
    /\ pc = "boot"
    /\ pc' = "serving"
    /\ \E up \in BOOLEAN, db \in Databases, c \in Configs,
          force_retrain \in BOOLEAN, seed \in Seeds :
          /\ neo4j_connector' = Some([up |-> up])
          /\ IF ~up
             THEN /\ log' = Append(log, "Could not connect to Neo4j")
                  /\ UNCHANGED <<graph_data_cache, node_to_entity, entity_to_node,
                                 model, trainer, fresh>>
             ELSE LET g == get_graph_data(db.nodes, db.rels)
                      num_nodes == Len(g.entity_ids)
                      num_relations == Cardinality(DOMAIN g.rel_type_map)
                      m == RGCNModel(num_nodes, num_relations, c.embedding_dim,
                                     c.hidden_dim, c.num_layers, seed)
                      loaded == LoadSnapshot(m, file, force_retrain)
                  IN  /\ graph_data_cache' = Some(g)
                      /\ IF NoNodes(num_nodes)
                         THEN /\ log' = Append(log, "No nodes found in graph")
                              /\ UNCHANGED <<node_to_entity, entity_to_node,
                                             model, trainer, fresh>>
                         ELSE /\ node_to_entity' = Mappings(g.entity_ids).n2e
                              /\ entity_to_node' = Mappings(g.entity_ids).e2n
                              /\ trainer' = Some([edge_index |-> g.edges,
                                                  edge_type |-> g.edge_types,
                                                  num_negative_samples |-> 1])
                              /\ fresh' = Some(m.params)
                              /\ model' = Some([loaded.model EXCEPT !.training = FALSE])
                              /\ log' = log \o <<loaded.line, "Service ready">>
    /\ UNCHANGED <<file, stats, training, request, response, epochs_run>>

(***************************************************************************)
(* The handlers.  Each is an `async def` without an await: once the event  *)
(* loop has entered one it runs to its return before another is entered.   *)
(* train_model is split at its epochs so that this is checked, not assumed.*)
(***************************************************************************)
\* an event loop that enters a handler while train_model is suspended, as it
\* would if the epoch loop awaited
AlwaysDispatch == TRUE

\* the event loop is free to enter a handler
CanDispatch == training = <<>>

\* `if not model`, `if not model or not trainer`
ModelMissing == IsNone(model)
TrainerMissing == IsNone(model) \/ IsNone(trainer)

Unavailable(detail) == [status |-> 503, detail |-> detail]

KnownIds == (DOMAIN entity_to_node) \cup {"Z"}
IdLists == {<<>>} \cup {<<e>> : e \in KnownIds} \cup {<<e, "Z">> : e \in KnownIds}
TopKs == {-1, 2}

\* the handler with the counter bumped ahead of the model check
GetEmbeddingsCountsFirst ==
    /\ pc = "serving"
    /\ training = <<>>
    /\ stats.total_queries < MaxQueries
    /\ \E entity_ids \in IdLists :
          IF IsNone(model)
          THEN /\ stats' = [stats EXCEPT !.total_queries = @ + 1]
               /\ response' = [status |-> 503, detail |-> "Model not loaded"]
          ELSE LET embeddings == get_embeddings(Val(model), entity_to_node, entity_ids)
               IN  /\ stats' = [stats EXCEPT
                                  !.total_queries = @ + 1,
                                  !.embeddings_count = @ + Len(embeddings)]
                   /\ response' = [status |-> 200,
                                   embeddings |-> AsFunction(embeddings),
                                   entity_ids |-> Keys(embeddings)]
    /\ UNCHANGED <<pc, file, neo4j_connector, graph_data_cache, node_to_entity,
                   entity_to_node, model, trainer, training, request, log,
                   epochs_run, fresh>>

\* POST /embeddings, lines 188-206
GetEmbeddingsHandler ==
    /\ pc = "serving"
    /\ CanDispatch
    /\ \E entity_ids \in IdLists :
          IF ModelMissing
          THEN /\ response' = Unavailable("Model not loaded")
               /\ UNCHANGED stats
          ELSE /\ stats.total_queries < MaxQueries
               /\ LET embeddings == get_embeddings(Val(model), entity_to_node, entity_ids)
                  IN  /\ stats' = [stats EXCEPT
                                     !.total_queries = @ + 1,
                                     !.embeddings_count = @ + Len(embeddings)]
                      /\ response' = [status |-> 200,
                                      embeddings |-> AsFunction(embeddings),
                                      entity_ids |-> Keys(embeddings)]
    /\ UNCHANGED <<pc, file, neo4j_connector, graph_data_cache, node_to_entity,
                   entity_to_node, model, trainer, training, request, log,
                   epochs_run, fresh>>

\* POST /similar, lines 209-229
FindSimilarHandler ==
    /\ pc = "serving"
    /\ CanDispatch
    /\ \E entity_id \in KnownIds, top_k \in TopKs :
          IF ModelMissing
          THEN /\ response' = Unavailable("Model not loaded")
               /\ UNCHANGED stats
          ELSE /\ stats.total_queries < MaxQueries
               /\ LET similar == find_similar_entities(Val(model), entity_to_node,
                                     node_to_entity, entity_id, top_k)
                  IN  /\ stats' = [stats EXCEPT
                                     !.total_queries = @ + 1,
                                     !.avg_similarity_updates =
                                         IF similar # <<>> THEN @ + 1 ELSE @]
                      /\ response' = [status |-> 200, entity_id |-> entity_id,
                                      similar_entities |-> similar]
    /\ UNCHANGED <<pc, file, neo4j_connector, graph_data_cache, node_to_entity,
                   entity_to_node, model, trainer, training, request, log,
                   epochs_run, fresh>>

\* POST /train, lines 232-240: the checks, model.train(), losses = []
TrainBegin ==
    /\ pc = "serving"
    /\ CanDispatch
    /\ \E epochs \in 0..MaxEpochs :
          IF TrainerMissing
          THEN /\ response' = Unavailable("Model or trainer not initialized")
               /\ UNCHANGED <<model, training>>
          ELSE /\ epochs_run + epochs <= MaxEpochs
               /\ model' = Some([Val(model) EXCEPT !.training = TRUE])
               /\ training' = Append(training, [epochs |-> epochs, epoch |-> 0])
               /\ UNCHANGED response
    /\ UNCHANGED <<pc, file, neo4j_connector, graph_data_cache, node_to_entity,
                   entity_to_node, trainer, stats, request, log, epochs_run, fresh>>

Without(s, i) == SubSeq(s, 1, i - 1) \o SubSeq(s, i + 1, Len(s))

\* one iteration of the loop at lines 241-245: RGCNTrainer.train_epoch
TrainEpoch ==
    /\ \E i \in DOMAIN training, d \in Noise :
          /\ training[i].epoch < training[i].epochs
          /\ model' = Some([Val(model) EXCEPT
                              !.training = TRUE,
                              !.params = OptimizerStep(@, d)])
          /\ training' = [training EXCEPT ![i].epoch = @ + 1]
    /\ epochs_run' = epochs_run + 1
    /\ UNCHANGED <<pc, file, neo4j_connector, graph_data_cache, node_to_entity,
                   entity_to_node, trainer, stats, request, response, log, fresh>>

\* a failure path that writes the snapshot on its way out
TrainEpochFailsSaves ==
    /\ \E i \in DOMAIN training :
          /\ training[i].epoch < training[i].epochs
          /\ training' = Without(training, i)
    /\ response' = [status |-> 500]
    /\ file' = Saved(state_dict(Val(model)))
    /\ UNCHANGED <<pc, neo4j_connector, graph_data_cache, node_to_entity,
                   entity_to_node, model, trainer, stats, request, log, epochs_run, fresh>>

\* train_epoch raises before optimizer.step(): the exception leaves train_model
TrainEpochFails ==
    /\ \E i \in DOMAIN training :
          /\ training[i].epoch < training[i].epochs
          /\ training' = Without(training, i)
    /\ response' = [status |-> 500]
    /\ UNCHANGED <<pc, file, neo4j_connector, graph_data_cache, node_to_entity,
                   entity_to_node, model, trainer, stats, request, log, epochs_run, fresh>>

\* lines 247-258: model.eval(), torch.save, the response
TrainEnd ==
    /\ \E i \in DOMAIN training :
          /\ training[i].epoch >= training[i].epochs
          /\ training' = Without(training, i)
          /\ response' = [status |-> 200, epochs |-> training[i].epochs,
                          final_loss |-> IF training[i].epoch > 0 THEN "loss" ELSE "None"]
    /\ model' = Some([Val(model) EXCEPT !.training = FALSE])
    /\ file' = Saved(state_dict(Val(model)))
    /\ UNCHANGED <<pc, neo4j_connector, graph_data_cache, node_to_entity,
                   entity_to_node, trainer, stats, request, log, epochs_run, fresh>>

Next ==
    \/ Startup
    \/ GetEmbeddingsHandler
    \/ FindSimilarHandler
    \/ TrainBegin
    \/ TrainEpoch
    \/ TrainEpochFails
    \/ TrainEnd

Spec == Init /\ [][Next]_vars
(***************************************************************************)
(* The embedding service on its own: any identifiers the ingestion can     *)
(* produce for up to SimNodes nodes, any embedding table with rows from    *)
(* SimRows, and the two service functions applied to any request.          *)
(***************************************************************************)
SimRows == {<<1, 0>>, <<1, 1>>, <<-1, 0>>}
SimTopKs == {-1, 0, 1, 2, SimNodes}
SimConfig == [embedding_dim |-> 2, hidden_dim |-> 2, num_layers |-> 1]

SimInit ==
    /\ pc = "serving"
    /\ file = Absent
    /\ neo4j_connector = Some([up |-> TRUE])
    /\ \E n \in 1..SimNodes :
       \E nodes \in NodeRecords(n), table \in [1..n -> SimRows] :
          LET g == get_graph_data(nodes, <<>>)
              m == RGCNModel(n, 0, SimConfig.embedding_dim, SimConfig.hidden_dim,
                             SimConfig.num_layers, 0)
          IN  /\ graph_data_cache = Some(g)
              /\ node_to_entity = Mappings(g.entity_ids).n2e
              /\ entity_to_node = Mappings(g.entity_ids).e2n
              /\ model = Some([m EXCEPT !.training = FALSE,
                                        !.params[EmbeddingKey].data = table])
              /\ trainer = Some([edge_index |-> g.edges, edge_type |-> g.edge_types,
                                 num_negative_samples |-> 1])
              /\ fresh = Some(m.params)
    /\ stats = InitialStats
    /\ training = <<>>
    /\ request = [op |-> "none"]
    /\ response = [status |-> 0]
    /\ log = <<"No pre-trained model found", "Service ready">>
    /\ epochs_run = 0

\* embedding_service.get_embeddings(request.entity_ids).  The service keeps
\* no state between calls, so a behaviour makes one call.
ServeEmbeddings ==
    /\ request.op = "none"
    /\ \E entity_ids \in SeqsUpTo(KnownIds, 2) :
          /\ request' = [op |-> "get_embeddings", entity_ids |-> entity_ids]
          /\ response' = [result |->
                             get_embeddings(Val(model), entity_to_node, entity_ids)]
    /\ UNCHANGED <<pc, file, neo4j_connector, graph_data_cache, node_to_entity,
                   entity_to_node, model, trainer, stats, training, log,
                   epochs_run, fresh>>

\* embedding_service.find_similar_entities(request.entity_id, request.top_k)
ServeSimilar ==
    /\ request.op = "none"
    /\ \E entity_id \in KnownIds, top_k \in SimTopKs :
          /\ request' = [op |-> "find_similar_entities",
                         entity_id |-> entity_id, top_k |-> top_k]
          /\ response' = [result |->
                             find_similar_entities(Val(model), entity_to_node,
                                                   node_to_entity, entity_id, top_k)]
    /\ UNCHANGED <<pc, file, neo4j_connector, graph_data_cache, node_to_entity,
                   entity_to_node, model, trainer, stats, training, log,
                   epochs_run, fresh>>

SimNext ==
    \/ ServeEmbeddings
    \/ ServeSimilar

SpecSim == SimInit /\ [][SimNext]_vars
(***************************************************************************)
(* Properties.                                                             *)
(***************************************************************************)
Ready == pc = "serving" /\ ~IsNone(model)
NumNodes == Len(Val(graph_data_cache).entity_ids)
IsSimilarCall == request.op = "find_similar_entities"
IsEmbeddingsCall == request.op = "get_embeddings"
Table == Val(model).params[EmbeddingKey].data

\* C1: after startup entity_to_node and node_to_entity both have num_nodes
\* entries and are inverses of each other, whatever identifiers the nodes carry.
C1_MappingsAreInverse ==
    Ready =>
        /\ Cardinality(DOMAIN entity_to_node) = NumNodes
        /\ Cardinality(DOMAIN node_to_entity) = NumNodes
        /\ \A e \in DOMAIN entity_to_node : node_to_entity[entity_to_node[e]] = e
        /\ \A i \in 0..(NumNodes - 1) :
              i \in DOMAIN node_to_entity /\ entity_to_node[node_to_entity[i]] = i

\* C2: no entry of find_similar_entities(e, top_k) has entity_id e, also when
\* several node indices carry the identifier e.
C2_NeverReturnsQuery ==
    IsSimilarCall =>
        \A i \in 1..Len(response.result) :
            response.result[i].entity_id # request.entity_id

\* C2 witness: a non-empty result for a query whose identifier two nodes carry
C2_Witness ==
    /\ IsSimilarCall
    /\ response.result # <<>>
    /\ Cardinality({i \in DOMAIN node_to_entity :
                       node_to_entity[i] = request.entity_id}) >= 2

\* C3: the scores of find_similar_entities(e, k) are non-increasing, and of two
\* returned candidates with the same score the one with the lower node index
\* comes first.
C3_SortedTiesByNodeIndex ==
    IsSimilarCall =>
        \A i, j \in 1..Len(response.result) :
            i < j =>
                /\ ~ScoreLess(response.result[i].score, response.result[j].score)
                /\ ScoreEq(response.result[i].score, response.result[j].score)
                       => entity_to_node[response.result[i].entity_id]
                            < entity_to_node[response.result[j].entity_id]

\* C4: for a mapped entity with C candidates, top_k <= 0 gives the empty list,
\* top_k > C gives all C candidates, and the result never has more than top_k
\* entries.
C4_TopKBounds ==
    (IsSimilarCall /\ request.entity_id \in DOMAIN entity_to_node) =>
        LET C == Cardinality((DOMAIN entity_to_node) \ {request.entity_id})
            got == Len(response.result)
        IN  /\ request.top_k <= 0 => got = 0
            /\ request.top_k > C => got = C
            /\ request.top_k >= 0 => got <= request.top_k

\* C5: get_embeddings(ids) returns a mapping whose keys are exactly the
\* requested identifiers present in entity_to_node, each with the vector of its
\* own node index.
C5_EmbeddingsOfMappedIds ==
    IsEmbeddingsCall =>
        /\ Range(Keys(response.result)) =
               {e \in Range(request.entity_ids) : e \in DOMAIN entity_to_node}
        /\ \A i, j \in 1..Len(response.result) :
               response.result[i][1] = response.result[j][1] => i = j
        /\ \A i \in 1..Len(response.result) :
               response.result[i][2] = Table[entity_to_node[response.result[i][1]] + 1]

\* C5 witness: a request naming a mapped and an unmapped identifier, answered
\* with a proper subset of it
C5_Witness ==
    /\ IsEmbeddingsCall
    /\ \E e \in Range(request.entity_ids) : e \notin DOMAIN entity_to_node
    /\ \E e \in Range(request.entity_ids) : e \in DOMAIN entity_to_node
    /\ response.result # <<>>

\* C6: when the entity set loaded at startup is empty, startup ends without a
\* model and without a trainer, and no later operation constructs either.
C6_EmptyGraphNoModel ==
    (pc = "serving" /\ ~IsNone(graph_data_cache) /\ NumNodes = 0) =>
        /\ IsNone(model)
        /\ IsNone(trainer)
        /\ log = <<"No nodes found in graph">>

\* C6 witness: the degraded process has answered a request
C6_Witness ==
    /\ pc = "serving"
    /\ ~IsNone(graph_data_cache)
    /\ NumNodes = 0
    /\ response.status = 503

\* C7: while the model is absent every request is answered with the
\* model-unavailable error and changes nothing else.
C7_UnavailableChangesNothing ==
    [][(pc = "serving" /\ IsNone(model)) =>
          /\ response'.status = 503
          /\ UNCHANGED <<pc, file, neo4j_connector, graph_data_cache, node_to_entity,
                         entity_to_node, model, trainer, stats, training, log>>]_vars

\* C7 witness: a train request refused while the model is absent
C7_Witness ==
    /\ pc = "serving"
    /\ IsNone(model)
    /\ response = [status |-> 503, detail |-> "Model or trainer not initialized"]

\* C8: when loading the snapshot fails, startup still ends ready and every
\* parameter has its freshly initialised value.
C8_FailedLoadLeavesFreshModel ==
    (Ready /\ epochs_run = 0 /\ log = <<"Could not load model", "Service ready">>) =>
        Val(model).params = Val(fresh)

\* C9: no query is served while a training invocation is between its first
\* and its last epoch, and training invocations do not overlap.
C9_TrainingIsExclusive ==
    [][/\ stats' # stats => (training = <<>> /\ training' = <<>>)
       /\ Len(training') <= 1]_vars

\* C9 witness: an invocation that has run an epoch and has another to run
C9_Witness ==
    \E i \in DOMAIN training :
        training[i].epoch >= 1 /\ training[i].epoch < training[i].epochs

\* C10: the vector served for an entity is its row of the output of the
\* model's forward pass over the graph's edges.
C10_ServedIsForwardOutput ==
    [][stats'.embeddings_count # stats.embeddings_count =>
          LET out == forward(Val(model), Val(trainer).edge_index, Val(trainer).edge_type)
          IN  \A e \in DOMAIN response'.embeddings :
                  VecScale(out.scale, response'.embeddings[e])
                      = out.x[entity_to_node[e] + 1]]_vars
(***************************************************************************)
(* Model construction on its own: RGCNModel.__init__ for any layer count   *)
(* up to MaxLayers and any dimensions up to MaxDim, over the graph of a    *)
(* database with nodes, followed by one forward pass.                      *)
(***************************************************************************)
ShapeInit ==
    /\ pc = "serving"
    /\ file = Absent
    /\ neo4j_connector = Some([up |-> TRUE])
    /\ \E db \in {d \in Databases : d.nodes # <<>>} :
          LET g == get_graph_data(db.nodes, db.rels)
          IN  /\ graph_data_cache = Some(g)
              /\ node_to_entity = Mappings(g.entity_ids).n2e
              /\ entity_to_node = Mappings(g.entity_ids).e2n
    /\ \E embedding_dim \in 1..MaxDim, hidden_dim \in 1..MaxDim,
          num_layers \in 0..MaxLayers, seed \in Seeds :
          request = [op |-> "none", embedding_dim |-> embedding_dim,
                     hidden_dim |-> hidden_dim, num_layers |-> num_layers,
                     seed |-> seed]
    /\ model = None
    /\ trainer = None
    /\ stats = InitialStats
    /\ training = <<>>
    /\ response = [status |-> 0]
    /\ log = <<>>
    /\ epochs_run = 0
    /\ fresh = None

\* startup lines 95-107, then model(edge_index, edge_type)
ConstructAndForward ==
    /\ request.op = "none"
    /\ LET g == Val(graph_data_cache)
           m == RGCNModel(Len(g.entity_ids), Cardinality(DOMAIN g.rel_type_map),
                          request.embedding_dim, request.hidden_dim,
                          request.num_layers, request.seed)
       IN  /\ model' = Some(m)
           /\ trainer' = Some([edge_index |-> g.edges, edge_type |-> g.edge_types,
                               num_negative_samples |-> 1])
           /\ fresh' = Some(m.params)
           /\ response' = [result |-> forward(m, g.edges, g.edge_types).x]
    /\ request' = [request EXCEPT !.op = "forward"]
    /\ UNCHANGED <<pc, file, neo4j_connector, graph_data_cache, node_to_entity,
                   entity_to_node, stats, training, log, epochs_run>>

ShapeNext == ConstructAndForward

SpecShape == ShapeInit /\ [][ShapeNext]_vars

\* the (in, out) dimensions of layer l, read off the shape of its root tensor
RootShape(m, l) == m.params[ConvKey(l, "root")].shape
WeightShape(m, l) == m.params[ConvKey(l, "weight")].shape
BiasShape(m, l) == m.params[ConvKey(l, "bias")].shape
ConvKeys(count) ==
    {ConvKey(l, name) : l \in 0..(count - 1), name \in {"weight", "root", "bias"}}

\* C11: for num_layers L >= 1 the stack has exactly L layers with the
\* dimensions of the schedule, every layer takes what the previous one
\* gives, and the forward output has shape [num_nodes, embedding_dim].
C11_LayerSchedule ==
    (request.op = "forward" /\ request.num_layers >= 1) =>
        LET m == Val(model)
            L == request.num_layers
            emb == request.embedding_dim
            hid == request.hidden_dim
            Want(l) == IF L = 1 THEN <<emb, emb>>
                       ELSE IF l = 0 THEN <<emb, hid>>
                       ELSE IF l = L - 1 THEN <<hid, emb>>
                       ELSE <<hid, hid>>
        IN  /\ Len(m.convs) = L
            /\ DOMAIN m.params = {EmbeddingKey} \cup ConvKeys(L)
            /\ \A l \in 0..(L - 1) :
                  /\ RootShape(m, l) = Want(l)
                  /\ WeightShape(m, l) = <<m.num_relations>> \o Want(l)
                  /\ BiasShape(m, l) = <<Want(l)[2]>>
            /\ \A l \in 1..(L - 1) : RootShape(m, l)[1] = RootShape(m, l - 1)[2]
            /\ Len(response.result) = m.num_nodes
            /\ \A p \in 1..Len(response.result) : Len(response.result[p]) = emb

\* C11 witness: a stack of three or more layers whose hidden dimension differs
\* from the embedding dimension has been built and run
C11_Witness ==
    /\ request.op = "forward"
    /\ request.num_layers >= 3
    /\ request.hidden_dim # request.embedding_dim
    /\ Len(response.result) >= 3
(***************************************************************************)
(* Graph ingestion on its own: get_graph_data over every enumeration of up *)
(* to MaxIngestEdges edge records.  An endpoint one past the last node is  *)
(* a node the node query filtered out; "" is a record without a type.      *)
(***************************************************************************)
IngestNodeLists == {<<>>, <<"A">>, <<"A", "">>}
IngestRelTypes == {"LIKES", "KNOWS", ""}
IngestRecords(nodes) ==
    {Rel(s, t, type) : s \in 1..(Len(nodes) + 1), t \in 1..(Len(nodes) + 1),
                       type \in IngestRelTypes}

IngestInit ==
    /\ pc = "boot"
    /\ file = Absent
    /\ neo4j_connector = Some([up |-> TRUE])
    /\ graph_data_cache = None
    /\ node_to_entity = EmptyDict
    /\ entity_to_node = EmptyDict
    /\ model = None
    /\ trainer = None
    /\ stats = InitialStats
    /\ training = <<>>
    /\ response = [status |-> 0]
    /\ \E nodes \in IngestNodeLists :
       \E rels \in SeqsUpTo(IngestRecords(nodes), MaxIngestEdges) :
          request = [op |-> "none", nodes |-> nodes, rels |-> rels]
    /\ log = <<>>
    /\ epochs_run = 0
    /\ fresh = None

\* graph_data_cache = neo4j_connector.get_graph_data()
Ingest ==
    /\ request.op = "none"
    /\ graph_data_cache' = Some(get_graph_data(request.nodes, request.rels))
    /\ request' = [request EXCEPT !.op = "ingest"]
    /\ UNCHANGED <<pc, file, neo4j_connector, node_to_entity, entity_to_node,
                   model, trainer, stats, training, response, log, epochs_run,
                   fresh>>

IngestNext == Ingest

SpecIngest == IngestInit /\ [][IngestNext]_vars

\* the records of the enumeration whose two endpoints are graph nodes
KeptRecords ==
    LET ids == {Neo4jId(p) : p \in 1..Len(request.nodes)}
        IsKept(r) == r.source \in ids /\ r.target \in ids
    IN  SelectSeq(request.rels, IsKept)

\* C12: after ingestion rel_type_map gives the relation names of the ingested
\* edges distinct indices in first-seen order, its values are exactly
\* 0..num_relations-1, every ingested edge carries the index of its relation
\* name and endpoints in [0, num_nodes), and so no relation index lies
\* outside [0, num_relations).
C12_RelationIndices ==
    (request.op = "ingest") =>
        LET g == Val(graph_data_cache)
            kept == KeptRecords
            name == [p \in 1..Len(kept) |-> RelTypeOf(kept[p].rel_type)]
            First(n) == CHOOSE p \in 1..Len(kept) :
                            name[p] = n /\ \A q \in 1..(p - 1) : name[q] # n
            num_nodes == Len(g.entity_ids)
            num_relations == Cardinality(DOMAIN g.rel_type_map)
        IN  /\ num_nodes = Len(request.nodes)
            /\ DOMAIN g.rel_type_map = Range(name)
            /\ \A n \in DOMAIN g.rel_type_map :
                  g.rel_type_map[n] = Cardinality({name[q] : q \in 1..(First(n) - 1)})
            /\ \A n1, n2 \in DOMAIN g.rel_type_map :
                  n1 # n2 => g.rel_type_map[n1] # g.rel_type_map[n2]
            /\ {g.rel_type_map[n] : n \in DOMAIN g.rel_type_map} = 0..(num_relations - 1)
            /\ Len(g.edges) = Len(kept)
            /\ Len(g.edge_types) = Len(kept)
            /\ \A p \in 1..Len(kept) :
                  /\ g.edge_types[p] = g.rel_type_map[name[p]]
                  /\ g.edge_types[p] \in 0..(num_relations - 1)
                  /\ g.edges[p] = <<kept[p].source - Neo4jId(1),
                                    kept[p].target - Neo4jId(1)>>
                  /\ g.edges[p][1] \in 0..(num_nodes - 1)
                  /\ g.edges[p][2] \in 0..(num_nodes - 1)

\* C12 witness: an enumeration with a skipped record and a relation name seen
\* again after a second name was first seen has been ingested
C12_Witness ==
    /\ request.op = "ingest"
    /\ Len(KeptRecords) < Len(request.rels)
    /\ Len(Val(graph_data_cache).edge_types) >= 2
    /\ Cardinality(DOMAIN Val(graph_data_cache).rel_type_map) = 2
    /\ "RELATED_TO" \in DOMAIN Val(graph_data_cache).rel_type_map
\* a step on which an invocation of train_model leaves, with this status
TrainLeaves(status) ==
    /\ Len(training') < Len(training)
    /\ response'.status = status

\* C13: the snapshot is written only when an invocation ends with all its
\* requested epochs done, and then equals the in-memory parameters; an
\* invocation that ends in a failed epoch leaves the snapshot as it was and
\* the in-memory parameters as the epochs before the failure made them.
C13_SnapshotOnlyAtEnd ==
    [][/\ file' # file =>
             /\ \E i \in DOMAIN training :
                   /\ training[i].epoch = training[i].epochs
                   /\ training' = Without(training, i)
             /\ TrainLeaves(200)
       /\ TrainLeaves(200) =>
             /\ file' = Saved(Val(model').params)
             /\ Val(model').params = Val(model).params
       /\ TrainLeaves(500) =>
             /\ file' = file
             /\ Val(model').params = Val(model).params]_vars

\* C13 witness: an invocation failed after one epoch, no snapshot has been
\* written, and the parameters are the fresh ones after that epoch's step
C13_Witness ==
    /\ Ready
    /\ response.status = 500
    /\ training = <<>>
    /\ epochs_run = 1
    /\ file = Absent
    /\ \E d \in Noise : Val(model).params = OptimizerStep(Val(fresh), d)
    /\ Val(model).params # Val(fresh)
====
